---- MODULE Spec2Model ----
(***************************************************************************)
(* Model of the pr-copilot tool functions: the ticket reference extractor, *)
(* the ticket detail fetcher, the narrative generator, the description     *)
(* composer and the pull-request orchestrator.                             *)
(*                                                                         *)
(* Strings the extractor scans are sequences of one-character strings, so  *)
(* that the regular expression is evaluated character by character.        *)
(***************************************************************************)
EXTENDS Integers, Sequences, FiniteSets, TLC

-----------------------------------------------------------------------------
(* Bounds of the model *)

\* number of fragments a scanned text is assembled from
MaxFrags == 5

-----------------------------------------------------------------------------
(* Characters and character classes of the regular expression engine *)

Upper == {"A","B","C","D","E","F","G","H","I","J","K","L","M",
          "N","O","P","Q","R","S","T","U","V","W","X","Y","Z"}

Lower == {"a","b","c","d","e","f","g","h","i","j","k","l","m",
          "n","o","p","q","r","s","t","u","v","w","x","y","z"}

Digit == {"0","1","2","3","4","5","6","7","8","9"}

\* \w : the word characters that decide \b
WordChar == Upper \cup Lower \cup Digit \cup {"_"}

\* \s : the whitespace characters of the inputs modelled
Space == {" ", "\t", "\n"}

\* the class [_\-\s\/] of the lookahead
SepClass == {"_", "-", "/"} \cup Space

\* [A-Z0-9]
KeyClass == Upper \cup Digit

-----------------------------------------------------------------------------
(* extractJiraTickets: /\b([A-Z][A-Z0-9]*-\d+)(?=[_\-\s\/]|$)/g             *)

IsWordAt(text, i) == i >= 1 /\ i <= Len(text) /\ text[i] \in WordChar

\* \b before the character at index i
WordBoundary(text, i) == IsWordAt(text, i - 1) # IsWordAt(text, i)

\* the pattern without its lookahead
LookaheadDropped(text, j) == TRUE

\* (?=[_\-\s\/]|$) before the character at index j
Lookahead(text, j) == j > Len(text) \/ text[j] \in SepClass

\* the index after the longest run of characters of class cls from index p
RECURSIVE RunEnd(_, _, _)
RunEnd(text, p, cls) ==
  IF p <= Len(text) /\ text[p] \in cls THEN RunEnd(text, p + 1, cls) ELSE p

\* the ways the pattern matches starting at index i: <<k, j>> where the key
\* is text[i..k-1], text[k] is the hyphen and the digits are text[k+1..j-1];
\* a quantifier may give back any part of its longest run
Candidates(text, i) ==
  IF ~(WordBoundary(text, i) /\ i <= Len(text) /\ text[i] \in Upper) THEN {}
  ELSE UNION {
         {<<k, j>> : j \in {q \in k + 2 .. RunEnd(text, k + 1, Digit) :
                              Lookahead(text, q)}} :
         k \in {q \in i + 1 .. RunEnd(text, i + 1, KeyClass) :
                  q <= Len(text) /\ text[q] = "-"}}

\* the match the backtracking engine reports at index i: both quantifiers
\* are greedy, the key's is tried first; 0 when the pattern fails at i
MatchEnd(text, i) ==
  LET cs == Candidates(text, i) IN
  IF cs = {} THEN 0
  ELSE LET best == CHOOSE c \in cs : \A d \in cs :
                      \/ c[1] > d[1]
                      \/ (c[1] = d[1] /\ c[2] >= d[2])
       IN best[2]

\* String.prototype.match with the g flag: the matched substrings, left to
\* right; the scan tries each index from lastIndex on and resumes after the
\* match it finds
RECURSIVE MatchAll(_, _)
MatchAll(text, from) ==
  LET hits == {i \in from .. Len(text) : MatchEnd(text, i) # 0} IN
  IF hits = {} THEN << >>
  ELSE LET i == CHOOSE h \in hits : \A g \in hits : h <= g
           e == MatchEnd(text, i)
       IN <<SubSeq(text, i, e - 1)>> \o MatchAll(text, e)

\* the matches returned as they are
SetOrderKeepAll(s) == s

\* [...new Set(matches)]: insertion order, later duplicates dropped
RECURSIVE SetOrder(_)
SetOrder(s) ==
  IF s = << >> THEN << >>
  ELSE LET init == SetOrder(SubSeq(s, 1, Len(s) - 1))
           last == s[Len(s)]
       IN IF \E p \in 1 .. Len(init) : init[p] = last
          THEN init ELSE Append(init, last)

\* A JavaScript value handed to the extractor: a string [t |-> "str", v |-> chars],
\* or a value without a match method, [t |-> "undefined"] or [t |-> "array"]
JsStr(chars) == [t |-> "str", v |-> chars]
JsUndefined == [t |-> "undefined", v |-> << >>]
JsArray == [t |-> "array", v |-> << >>]

\* the outcome of a call: a returned value or a thrown exception
Returned(v) == [thrown |-> FALSE, val |-> v]
Thrown(e) == [thrown |-> TRUE, val |-> e]

extractJiraTickets(text) ==
  IF text.t = "str" THEN Returned(SetOrder(MatchAll(text.v, 1)))
  ELSE Thrown("TypeError")

-----------------------------------------------------------------------------
(* Strings of the orchestrator *)

\* " " followed by the two UTF-16 code units of the robot emoji
aiSignature == <<" ", "uD83E", "uDD16">>

\* String.prototype.endsWith
endsWith(s, suffix) ==
  /\ Len(s) >= Len(suffix)
  /\ SubSeq(s, Len(s) - Len(suffix) + 1, Len(s)) = suffix

\* the signature appended without the endsWith test
finalTitleAlwaysAppended(title) == title \o aiSignature

\* title.endsWith(aiSignature) ? title : `${title}${aiSignature}`
finalTitleOf(title) ==
  IF endsWith(title, aiSignature) THEN title ELSE title \o aiSignature

DigitChars == <<"0","1","2","3","4","5","6","7","8","9">>

\* `${n}` for a non-negative integer
RECURSIVE NatToChars(_)
NatToChars(n) ==
  IF n < 10 THEN <<DigitChars[n + 1]>>
  ELSE NatToChars(n \div 10) \o <<DigitChars[(n % 10) + 1]>>

\* the number a string of decimal digits denotes
RECURSIVE CharsToNat(_)
CharsToNat(cs) ==
  IF cs = << >> THEN 0
  ELSE 10 * CharsToNat(SubSeq(cs, 1, Len(cs) - 1))
       + (CHOOSE d \in 0 .. 9 : DigitChars[d + 1] = cs[Len(cs)])

\* getJiraUrl: the base URL is a literal of the function
jiraBaseUrl == "https://jira2.workday.com"
getJiraUrl(ticket) == [base |-> jiraBaseUrl, path |-> "/browse/", ticket |-> ticket]

-----------------------------------------------------------------------------
(* validateGitHubToken and handleGitHubError *)

\* process.env.GITHUB_TOKEN: unset, set to the empty string, or set
Tokens == {"undefined", "", "ghp_token"}

\* the token checked against undefined only
validateGitHubTokenDefinedOnly(token) ==
  IF token = "undefined"
  THEN [success |-> FALSE,
        error |-> "GitHub token not found. Please set GITHUB_TOKEN environment variable.",
        instructions |-> "To get a GitHub token: ..."]
  ELSE [success |-> TRUE, token |-> token]

validateGitHubToken(token) ==
  IF token \in {"undefined", ""}
  THEN [success |-> FALSE,
        error |-> "GitHub token not found. Please set GITHUB_TOKEN environment variable.",
        instructions |-> "To get a GitHub token: ..."]
  ELSE [success |-> TRUE, token |-> token]

\* The errors a GitHub call rejects with.  response: whether error.response is
\* set; data: error.response.data, an object (with or without a message), null
\* or undefined; message: whether error.message is a non-empty string.
ErrorDatas == {[t |-> "object", message |-> "Validation Failed"],
               [t |-> "object", message |-> ""],
               [t |-> "null", message |-> ""],
               [t |-> "undefined", message |-> ""]}

HttpErrors ==
  [response : {TRUE}, status : {401, 422, 500}, data : ErrorDatas,
   message : {"Request failed"}]
  \cup
  [response : {FALSE}, status : {0}, data : {[t |-> "undefined", message |-> ""]},
   message : {"Network Error", ""}]

\* a TypeError raised by the tool's own code: an Error without a response
TypeErrorOf(msg) ==
  [response |-> FALSE, status |-> 0,
   data |-> [t |-> "undefined", message |-> ""], message |-> msg]

\* errorMessages[status] || errorData.message || "Unknown error occurred."
errorText(status, errorData) ==
  CASE status = 401 -> "Authentication failed. Check your GitHub token."
    [] status = 403 -> "Access forbidden. Token may lack required permissions."
    [] status = 404 -> "Repository not found or you don't have access to it."
    [] status = 422 ->
         IF errorData.message # "" THEN "Validation failed. <message>"
         ELSE "Validation failed. Check your parameters."
    [] OTHER -> IF errorData.message # "" THEN errorData.message
                ELSE "Unknown error occurred."

\* The errorMessages table is built before the status is looked up, so
\* errorData.message is read for every status: a null or undefined body
\* raises a TypeError inside the catch block of the tool.
handleGitHubError(error, operation) ==
  IF error.response
  THEN IF error.data.t \in {"null", "undefined"}
       THEN Thrown("TypeError")
       ELSE Returned([success |-> FALSE,
                      error |-> "GitHub API error (" \o ToString(error.status)
                                \o "): " \o errorText(error.status, error.data),
                      details |-> error.data])
  ELSE Returned([success |-> FALSE,
                 error |-> IF error.message # "" THEN error.message
                           ELSE "Failed to " \o operation])

-----------------------------------------------------------------------------
(* get_jira_ticket_details *)

Undef == [t |-> "undefined"]
Null == [t |-> "null"]
Named(n) == [t |-> "object", name |-> n]

\* Issue text is a sequence of whitespace-free tokens; figmaRegex is modelled
\* on this vocabulary: the part of a token the pattern matches, "" for none
\* (the match stops before a "?")
FigmaMatch(tok) ==
  CASE tok = "https://www.figma.com/file/abc123/Login?node-id=1"
         -> "https://www.figma.com/file/abc123/Login"
    [] tok = "https://figma.com/design/Zz9/Flow" -> "https://figma.com/design/Zz9/Flow"
    [] OTHER -> ""

\* text.match(figmaRegex) || [] : every match in order, duplicates kept
RECURSIVE FigmaMatches(_)
FigmaMatches(toks) ==
  IF toks = << >> THEN << >>
  ELSE (IF FigmaMatch(Head(toks)) = "" THEN << >> ELSE <<FigmaMatch(Head(toks))>>)
       \o FigmaMatches(Tail(toks))

Text(toks) == [t |-> "string", toks |-> toks]

\* the fields objects an issue comes with
FieldsFull ==
  [t |-> "object",
   summary |-> Text(<<"Login", "page">>),
   description |-> Text(<<"See", "https://www.figma.com/file/abc123/Login?node-id=1",
                          "and", "https://figma.com/design/Zz9/Flow",
                          "https://figma.com/design/Zz9/Flow">>),
   status |-> Named("In Progress"), priority |-> Named("High"),
   assignee |-> Named("Dev"), issuetype |-> Named("Story"),
   labels |-> <<"ui">>, components |-> <<"web">>]

FieldsPlain ==
  [FieldsFull EXCEPT !.description = Text(<<"No", "designs", "https://example.com/file/x">>)]

FieldsMinimal ==
  [t |-> "object", summary |-> Undef, description |-> Null,
   status |-> Named("Open"), priority |-> Undef, assignee |-> Null,
   issuetype |-> Named("Bug"), labels |-> << >>, components |-> << >>]

FieldsNoStatus == [FieldsFull EXCEPT !.status = Undef]
FieldsNoIssueType == [FieldsPlain EXCEPT !.issuetype = Undef]

\* The outcomes of the GET to the issue tracker: no response, a non-2xx
\* status, or a 2xx response whose body is null, an unparsed string, an
\* object without fields, or an object with one of the fields objects
JiraResponses(ticketId) ==
  {[kind |-> "network", status |-> 0, body |-> Undef],
   [kind |-> "status", status |-> 404, body |-> Undef],
   [kind |-> "ok", status |-> 200, body |-> Null],
   [kind |-> "ok", status |-> 200, body |-> [t |-> "string"]],
   [kind |-> "ok", status |-> 200,
    body |-> [t |-> "object", key |-> ticketId, fields |-> Undef]]}
  \cup
  {[kind |-> "ok", status |-> 200,
    body |-> [t |-> "object", key |-> ticketId, fields |-> f]] :
     f \in {FieldsFull, FieldsPlain, FieldsMinimal, FieldsNoStatus, FieldsNoIssueType}}

\* the exception the try block of the tool raises for a response, "" for none
JiraTryError(resp) ==
  CASE resp.kind = "network" -> "Network Error"
    [] resp.kind = "status" -> "Request failed with status code " \o ToString(resp.status)
    [] resp.body.t \in {"null", "undefined"} -> "Cannot read properties of null (reading 'fields')"
    [] resp.body.t = "string" -> "Cannot read properties of undefined (reading 'description')"
    [] resp.body.fields.t # "object" -> "Cannot read properties of undefined (reading 'description')"
    [] resp.body.fields.status.t # "object" -> "Cannot read properties of undefined (reading 'name')"
    [] resp.body.fields.issuetype.t # "object" -> "Cannot read properties of undefined (reading 'name')"
    [] OTHER -> ""

\* x?.name || dflt
NameOr(x, dflt) == IF x.t = "object" THEN x.name ELSE dflt

\* text || dflt, as the token sequence
ToksOr(x, dflt) == IF x.t = "string" /\ x.toks # << >> THEN x.toks ELSE dflt

ticketDetailsOf(ticketId, issue) ==
  LET fields == issue.fields
      description == ToksOr(fields.description, <<"No", "description", "provided">>)
      summary == ToksOr(fields.summary, << >>)
      allText == summary \o description
  IN [key |-> issue.key,
      summary |-> fields.summary,
      description |-> description,
      status |-> fields.status.name,
      priority |-> NameOr(fields.priority, "Not set"),
      assignee |-> NameOr(fields.assignee, "Unassigned"),
      issueType |-> fields.issuetype.name,
      labels |-> fields.labels,
      components |-> fields.components,
      figmaLinks |-> FigmaMatches(allText),
      url |-> [base |-> "https://jira2.workday.com", path |-> "/browse/", ticket |-> ticketId]]

placeholderTicket(ticketId) ==
  [key |-> ticketId,
   summary |-> [t |-> "template", text |-> "JIRA ticket ", ticket |-> ticketId],
   description |-> <<"Unable", "to", "fetch", "ticket", "details", "from", "JIRA", "API">>,
   status |-> "Unknown",
   figmaLinks |-> << >>,
   url |-> [base |-> "https://jira2.workday.com", path |-> "/browse/", ticket |-> ticketId]]

\* the tool with only the GET inside its try block
get_jira_ticket_details_unguarded(ticketId, resp) ==
  IF JiraTryError(resp) = ""
  THEN Returned([success |-> TRUE, error |-> "",
                 ticket |-> ticketDetailsOf(ticketId, resp.body)])
  ELSE IF resp.kind # "ok"
  THEN Returned([success |-> FALSE, error |-> JiraTryError(resp),
                 ticket |-> placeholderTicket(ticketId)])
  ELSE Thrown("TypeError")

\* the value the tool function resolves with (or the exception it rejects
\* with) once the GET has settled with resp
get_jira_ticket_details(ticketId, resp) ==
  IF JiraTryError(resp) = ""
  THEN Returned([success |-> TRUE, error |-> "",
                 ticket |-> ticketDetailsOf(ticketId, resp.body)])
  ELSE Returned([success |-> FALSE, error |-> JiraTryError(resp),
                 ticket |-> placeholderTicket(ticketId)])

-----------------------------------------------------------------------------
(* generateDetailedSummary: the fallback bundle and the generated bundle *)

\* the templated detailedSummary of the catch block ("u0060" is the backtick)
fallbackSummary(head, base, nFiles, additions, deletions) ==
  JsStr(<<"T","h","i","s"," ","P","R"," ","i","n","t","r","o","d","u","c","e",
          "s"," ","c","h","a","n","g","e","s"," ","f","r","o","m"," ","u0060">>
        \o head \o <<"u0060"," ","t","o"," ","u0060">> \o base
        \o <<"u0060"," ","b","r","a","n","c","h"," ","w","i","t","h"," ">>
        \o NatToChars(nFiles)
        \o <<" ","f","i","l","e","s"," ","m","o","d","i","f","i","e","d"," ","(">>
        \o NatToChars(additions)
        \o <<" ","a","d","d","i","t","i","o","n","s",","," ">>
        \o NatToChars(deletions)
        \o <<" ","d","e","l","e","t","i","o","n","s",")",".">>)

\* the templated keyChanges of the catch block ("u2022" is the bullet)
fallbackKeyChanges(nFiles, additions, deletions) ==
  JsStr(<<"u2022"," ","M","o","d","i","f","i","e","d"," ">>
        \o NatToChars(nFiles)
        \o <<" ","f","i","l","e","s"," ","w","i","t","h"," ">>
        \o NatToChars(additions)
        \o <<" ","a","d","d","i","t","i","o","n","s"," ","a","n","d"," ">>
        \o NatToChars(deletions)
        \o <<" ","d","e","l","e","t","i","o","n","s">>)

\* the fixed motivationContext of the catch block
fallbackMotivation ==
  JsStr(<<"T","h","i","s"," ","c","h","a","n","g","e"," ","a","d","d","r","e",
          "s","s","e","s"," ","t","h","e"," ","r","e","q","u","i","r","e","m",
          "e","n","t","s"," ","s","p","e","c","i","f","i","e","d"," ","i","n",
          " ","t","h","e"," ","J","I","R","A"," ","t","i","c","k","e","t","(",
          "s",")"," ","m","e","n","t","i","o","n","e","d"," ","b","e","l","o",
          "w","."," ","T","h","e"," ","m","o","d","i","f","i","c","a","t","i",
          "o","n","s"," ","i","m","p","r","o","v","e"," ","s","y","s","t","e",
          "m"," ","f","u","n","c","t","i","o","n","a","l","i","t","y"," ","a",
          "n","d"," ","u","s","e","r"," ","e","x","p","e","r","i","e","n","c",
          "e",".">>)

fallbackBundle(head, base, filesChanged, stats) ==
  [detailedSummary |-> fallbackSummary(head, base, Len(filesChanged),
                                       stats.additions, stats.deletions),
   keyChanges |-> fallbackKeyChanges(Len(filesChanged), stats.additions, stats.deletions),
   motivationContext |-> fallbackMotivation]

\* the bundle of the return statement, from the three responses in call order
generatedBundle(responses) ==
  [detailedSummary |-> responses[1],
   keyChanges |-> responses[2],
   motivationContext |-> responses[3]]

\* The content fields the LLM answers with, per call (1 description, 2 key
\* changes, 3 motivation).  The content of a chat message is a string, or an
\* array of content parts, or missing.
LlmContents(k) ==
  CASE k = 1 -> {JsStr(<<"A","d","d","s"," ","X","Y","-","7"," ","f","l","o","w">>),
                 JsStr(<<"A","B","-","1","2"," ","d","o","n","e">>),
                 JsStr(<<"R","e","f","a","c","t","o","r">>),
                 JsUndefined, JsArray}
    [] k = 2 -> {JsStr(<<"-"," ","l","o","g","i","n">>)}
    [] OTHER -> {JsStr(<<"W","h","y">>)}

\* the JIRA ticket details block filled in from the ticket of any result
jiraTicketDetailsOfAnyResult(jiraResult) ==
  [present |-> TRUE,
   key |-> jiraResult.ticket.key,
   status |-> jiraResult.ticket.status,
   priority |-> "Unknown",
   figmaLinks |-> jiraResult.ticket.figmaLinks]

\* the JIRA ticket details block of the prompts: filled in from the ticket
\* only when the fetch reported success
jiraTicketDetailsOf(jiraResult) ==
  IF jiraResult.success
  THEN [present |-> TRUE,
        key |-> jiraResult.ticket.key,
        status |-> jiraResult.ticket.status,
        priority |-> jiraResult.ticket.priority,
        figmaLinks |-> jiraResult.ticket.figmaLinks]
  ELSE [present |-> FALSE]

-----------------------------------------------------------------------------
(* analyzeCodeDiff: the change-set, the counts and the file type table *)

File(name, status, additions, deletions) ==
  [filename |-> name, status |-> status, additions |-> additions, deletions |-> deletions]

\* The bodies of a successful compare response: without files and stats,
\* with an empty files list, and with files.
CompareBodies ==
  {[hasFiles |-> FALSE, files |-> << >>, hasStats |-> FALSE,
    stats |-> [additions |-> 0, deletions |-> 0, total |-> 0]],
   [hasFiles |-> TRUE, files |-> << >>, hasStats |-> TRUE,
    stats |-> [additions |-> 0, deletions |-> 0, total |-> 0]],
   [hasFiles |-> TRUE,
    files |-> <<File(<<"a",".","j","s">>, "modified", 30, 5),
                File(<<"b",".","m","d">>, "added", 8, 0),
                File(<<"s","r","c","/","c",".","j","s">>, "modified", 2, 0)>>,
    hasStats |-> TRUE,
    stats |-> [additions |-> 40, deletions |-> 5, total |-> 45]],
   [hasFiles |-> TRUE,
    files |-> <<File(<<"M","a","k","e","f","i","l","e">>, "removed", 0, 9),
                File(<<"l","o","g",".","1","0">>, "renamed", 0, 0),
                File(<<"x",".","m","d">>, "added", 3, 0),
                File(<<"l","o","g",".","7">>, "modified", 1, 1),
                File(<<"e","n","d",".">>, "added", 1, 0)>>,
    hasStats |-> TRUE,
    stats |-> [additions |-> 5, deletions |-> 10, total |-> 15]]}

\* compareData.files || []  and  compareData.stats || {additions: 0, ...}
filesChangedOf(compareData) ==
  IF compareData.hasFiles THEN compareData.files ELSE << >>

statsOf(compareData) ==
  IF compareData.hasStats THEN compareData.stats
  ELSE [additions |-> 0, deletions |-> 0, total |-> 0]

\* the filter with renamed files taken for modified ones
CountStatusRenamedAsModified(files, status) ==
  Cardinality({p \in 1 .. Len(files) :
                 \/ files[p].status = status
                 \/ status = "modified" /\ files[p].status = "renamed"})

\* filesChanged.filter(f => f.status === status).length
RECURSIVE CountStatus(_, _)
CountStatus(files, status) ==
  IF files = << >> THEN 0
  ELSE (IF Head(files).status = status THEN 1 ELSE 0) + CountStatus(Tail(files), status)

\* file.filename.split('.').pop() || 'no-extension'
RECURSIVE LastSegment(_)
LastSegment(name) ==
  IF name = << >> THEN << >>
  ELSE IF name[Len(name)] = "." THEN << >>
  ELSE Append(LastSegment(SubSeq(name, 1, Len(name) - 1)), name[Len(name)])

extensionOf(name) ==
  IF LastSegment(name) = << >>
  THEN <<"n","o","-","e","x","t","e","n","s","i","o","n">>
  ELSE LastSegment(name)

\* a property name that is an array index: these are enumerated first, in
\* ascending numeric order, whatever the order of insertion
IsArrayIndex(key) ==
  /\ key # << >>
  /\ \A p \in 1 .. Len(key) : key[p] \in Digit
  /\ (Len(key) = 1 \/ key[1] # "0")
  /\ Len(key) <= 9

\* where a new property lands in the enumeration order of an object
InsertPos(entries, key) ==
  IF IsArrayIndex(key)
  THEN 1 + Cardinality({p \in 1 .. Len(entries) :
                          /\ IsArrayIndex(entries[p].ext)
                          /\ CharsToNat(entries[p].ext) < CharsToNat(key)})
  ELSE Len(entries) + 1

\* fileTypes[ext] = (fileTypes[ext] || 0) + 1, the object kept as the
\* sequence Object.entries enumerates
Bump(entries, key) ==
  IF \E p \in 1 .. Len(entries) : entries[p].ext = key
  THEN [p \in 1 .. Len(entries) |->
          IF entries[p].ext = key
          THEN [ext |-> key, count |-> entries[p].count + 1]
          ELSE entries[p]]
  ELSE LET at == InsertPos(entries, key) IN
       SubSeq(entries, 1, at - 1) \o <<[ext |-> key, count |-> 1]>>
       \o SubSeq(entries, at, Len(entries))

RECURSIVE fileTypesOf(_)
fileTypesOf(files) ==
  IF files = << >> THEN << >>
  ELSE Bump(fileTypesOf(SubSeq(files, 1, Len(files) - 1)),
            extensionOf(files[Len(files)].filename))

\* .sort(([,a], [,b]) => b - a): a stable sort, descending by count
RECURSIVE SortByCount(_)
SortByCount(entries) ==
  IF entries = << >> THEN << >>
  ELSE LET init == SortByCount(SubSeq(entries, 1, Len(entries) - 1))
           last == entries[Len(entries)]
           keep == Cardinality({p \in 1 .. Len(init) : init[p].count >= last.count})
       IN SubSeq(init, 1, keep) \o <<last>> \o SubSeq(init, keep + 1, Len(init))

changeAnalysisOf(filesChanged) ==
  [newFiles |-> CountStatus(filesChanged, "added"),
   modified |-> CountStatus(filesChanged, "modified"),
   deleted |-> CountStatus(filesChanged, "removed"),
   total |-> Len(filesChanged),
   fileTypes |-> SortByCount(fileTypesOf(filesChanged))]

-----------------------------------------------------------------------------
(* The description: a Markdown document as the sequence of its parts *)

Part(section, content) == [sec |-> section, val |-> content]

\* a caller's body string as a document: the empty string has no part
bodyDoc(body) == IF body = << >> THEN << >> ELSE <<Part("text", JsStr(body))>>

\* the template literal of the try block
enhancedDescriptionOf(bundle, allJiraTickets, figmaLinks, filesChanged) ==
  <<Part("Description", bundle.detailedSummary),
    Part("Key Changes", bundle.keyChanges),
    Part("Motivation and Context", bundle.motivationContext),
    Part("Jira Ticket",
         [links |-> [p \in 1 .. Len(allJiraTickets) |-> getJiraUrl(allJiraTickets[p])]])>>
  \o (IF figmaLinks # << >> THEN <<Part("Figma Links", [links |-> figmaLinks])>> ELSE << >>)
  \o <<Part("Screenshots", [rows |-> 1]),
       Part("Change Analysis", changeAnalysisOf(filesChanged)),
       Part("Footer", [by |-> "AI Agent"])>>

\* the template literal of the catch block
staticDescriptionOf(head, base) ==
  <<Part("Description", [t |-> "static", head |-> head, base |-> base]),
    Part("Key Changes", [t |-> "static"]),
    Part("Motivation and Context", [t |-> "static"]),
    Part("Jira Ticket", [links |-> << >>]),
    Part("Screenshots", [rows |-> 1]),
    Part("Change Analysis",
         [newFiles |-> 0, modified |-> 0, deleted |-> 0, total |-> 0, fileTypes |-> << >>]),
    Part("Footer", [by |-> "AI Agent"])>>

-----------------------------------------------------------------------------
(* State *)

VARIABLES
  inv,     \* the invocation: the tool, its arguments and the environment
  pc,      \* the statement the invocation is at
  net,     \* the outbound requests issued so far, each with its state
  loc,     \* the local variables of the functions on the call stack
  result,  \* what the tool function resolved or rejected with
  xin,     \* the value handed to a pure function applied on its own
  xout,    \* the outcome of that function
  response \* what the tool-call handler of the MCP server answered

vars == <<inv, pc, net, loc, result, xin, xout, response>>

-----------------------------------------------------------------------------
(* Inputs *)

Titles == {<<"F","i","x">>,
           <<"F","i","x","uD83E","uDD16">>,
           <<"F","i","x"," ","uD83E","uDD16">>,
           <<"F","i","x"," ","uD83E","uDD16"," ","uD83E","uDD16">>}

Heads == {<<"f","i","x">>,
          <<"A","B","-","1","2","-","f","i","x">>,
          <<"A","B","-","1","2","/","C","-","3">>,
          <<"T","I","C","K","E","T","-","1","2","3","4","5","-","f","e","a","t","u","r","e">>}

Base == <<"d","e","v","e","l","o","p">>

Bodies == {<< >>, <<"N","o","t","e">>}

TicketIds == {<<"A","B","-","1","2">>}

NoArgs ==
  [tool |-> "none", via |-> "direct", token |-> "undefined", ai |-> FALSE, title |-> << >>,
   head |-> << >>, base |-> << >>, body |-> << >>, include |-> FALSE,
   ticketId |-> << >>, JIRA_BASE_URL |-> jiraBaseUrl]

\* the values of the JIRA_BASE_URL environment variable: the Workday
\* instance, or another one
JiraBaseUrls == {jiraBaseUrl, "https://jira.example.com"}

\* the invocations of the four tools, optional arguments at their defaults
\* unless given, with JIRA_BASE_URL naming the Workday instance
Calls ==
  {[NoArgs EXCEPT !.tool = "create_pull_request", !.token = tk, !.ai = ai,
                  !.title = ti, !.head = h, !.base = Base, !.body = b, !.include = inc] :
     tk \in Tokens, ai \in BOOLEAN, ti \in Titles, h \in Heads, b \in Bodies,
     inc \in BOOLEAN}
  \cup
  {[NoArgs EXCEPT !.tool = "generate_pr_summary", !.token = tk, !.ai = ai,
                  !.head = h, !.base = Base, !.body = b, !.include = TRUE] :
     tk \in Tokens, ai \in BOOLEAN, h \in Heads, b \in Bodies}
  \cup
  {[NoArgs EXCEPT !.tool = "get_repository_info", !.token = tk] : tk \in Tokens}
  \cup
  {[NoArgs EXCEPT !.tool = "get_jira_ticket_details", !.ticketId = id] : id \in TicketIds}

\* the invocations, and those of the tools that write ticket links under
\* each value of JIRA_BASE_URL
Invocations ==
  Calls \cup
  {[a EXCEPT !.JIRA_BASE_URL = u] :
     u \in JiraBaseUrls,
     a \in {b \in Calls :
              \/ b.tool = "get_jira_ticket_details"
              \/ (b.tool = "generate_pr_summary" /\ b.token = "ghp_token"
                    /\ ~b.ai /\ b.body = << >>)}}

Request(op, kind, target) == [op |-> op, kind |-> kind, target |-> target, st |-> "pending"]

NoResult == [thrown |-> FALSE, val |-> [none |-> TRUE]]

NotCalled == [done |-> FALSE]

NoResponse == [sent |-> FALSE]

NoLoc ==
  [finalBody |-> << >>,
   enhancedDescription |-> << >>,
   filesChanged |-> << >>,
   stats |-> [additions |-> 0, deletions |-> 0, total |-> 0],
   branchJiraTickets |-> << >>,
   jiraCaller |-> "",
   jiraTicketId |-> << >>,
   jiraTicketDetails |-> [present |-> FALSE],
   k |-> 0,
   responses |-> << >>,
   bundle |-> [none |-> TRUE],
   allJiraTickets |-> << >>,
   figmaLinks |-> << >>,
   payload |-> [none |-> TRUE]]

Init ==
  /\ inv = NoArgs
  /\ pc = "idle"
  /\ net = << >>
  /\ loc = NoLoc
  /\ result = NoResult
  /\ xin = JsUndefined
  /\ xout = NotCalled
  /\ response = NoResponse

\* the index of the request awaiting its response (the last one issued)
Pending == {i \in 1 .. Len(net) : net[i].st = "pending"}

Settle(i, st) == [net EXCEPT ![i].st = st]

-----------------------------------------------------------------------------
(* The tool functions *)

\* a tool is invoked with its arguments
Invoke(a) ==
  /\ pc = "idle"
  /\ inv' = a
  /\ pc' = IF a.tool = "get_jira_ticket_details" THEN "jira_issue" ELSE "validate"
  /\ loc' = IF a.tool = "get_jira_ticket_details"
            THEN [loc EXCEPT !.jiraCaller = "tool", !.jiraTicketId = a.ticketId]
            ELSE loc
  /\ UNCHANGED <<net, result, xin, xout, response>>

\* the token check followed by the analysis whatever include_diff_analysis says
ValidateTokenAlwaysAnalyze ==
  /\ pc = "validate"
  /\ LET tokenValidation == validateGitHubToken(inv.token) IN
     IF ~tokenValidation.success
     THEN /\ result' = Returned(tokenValidation)
          /\ pc' = "returned"
          /\ loc' = loc
     ELSE /\ result' = result
          /\ loc' = [loc EXCEPT !.finalBody = bodyDoc(inv.body)]
          /\ pc' = CASE inv.tool = "get_repository_info" -> "gri_issue"
                     [] inv.tool = "generate_pr_summary" -> "acd_issue"
                     [] OTHER -> "acd_issue"
  /\ UNCHANGED <<inv, net, xin, xout, response>>

\* const tokenValidation = validateGitHubToken();
\* if (!tokenValidation.success) return tokenValidation;
ValidateToken ==
  /\ pc = "validate"
  /\ LET tokenValidation == validateGitHubToken(inv.token) IN
     IF ~tokenValidation.success
     THEN /\ result' = Returned(tokenValidation)
          /\ pc' = "returned"
          /\ loc' = loc
     ELSE /\ result' = result
          /\ loc' = [loc EXCEPT !.finalBody = bodyDoc(inv.body)]
          /\ pc' = CASE inv.tool = "get_repository_info" -> "gri_issue"
                     [] inv.tool = "generate_pr_summary" -> "acd_issue"
                     [] OTHER -> IF inv.include THEN "acd_issue" ELSE "cpr_submit"
  /\ UNCHANGED <<inv, net, xin, xout, response>>

\* analyzeCodeDiff hands its description back to the tool that called it
AcdReturn(desc) ==
  /\ loc' = [loc EXCEPT !.enhancedDescription = desc,
                        !.finalBody = IF inv.tool = "create_pull_request"
                                      THEN desc ELSE loc.finalBody]
  /\ pc' = IF inv.tool = "generate_pr_summary" THEN "gps_issue" ELSE "cpr_submit"

\* analyzeCodeDiff: axios.get(compareUrl, { headers })
AcdIssueCompare ==
  /\ pc = "acd_issue"
  /\ net' = Append(net, Request("compare", "GET", inv.base \o <<".",".",".">> \o inv.head))
  /\ pc' = "acd_wait"
  /\ UNCHANGED <<inv, loc, result, xin, xout, response>>

\* the compare GET fails and analyzeCodeDiff lets the error through to the
\* catch block of the tool
AcdCompareRejectedPropagated ==
  /\ pc = "acd_wait"
  /\ \E i \in Pending :
       /\ net[i].op = "compare"
       /\ net' = Settle(i, "failed")
  /\ result' = handleGitHubError(TypeErrorOf("Request failed"), "create pull request")
  /\ pc' = "returned"
  /\ UNCHANGED <<inv, loc, xin, xout, response>>

\* the compare GET fails: the catch block returns the static template
AcdCompareRejected ==
  /\ pc = "acd_wait"
  /\ \E i \in Pending :
       /\ net[i].op = "compare"
       /\ net' = Settle(i, "failed")
  /\ AcdReturn(staticDescriptionOf(inv.head, inv.base))
  /\ UNCHANGED <<inv, result, xin, xout, response>>

\* the compare GET succeeds, and a response without a files field is taken
\* for a failure: the catch block returns the static template
AcdCompareResolvedFilesRequired(compareData) ==
  /\ pc = "acd_wait"
  /\ \E i \in Pending :
       /\ net[i].op = "compare"
       /\ net' = Settle(i, "ok")
  /\ IF ~compareData.hasFiles
     THEN AcdReturn(staticDescriptionOf(inv.head, inv.base))
     ELSE /\ loc' = [loc EXCEPT !.filesChanged = filesChangedOf(compareData),
                                !.stats = statsOf(compareData),
                                !.branchJiraTickets = extractJiraTickets(JsStr(inv.head)).val]
          /\ pc' = "gds_start"
  /\ UNCHANGED <<inv, result, xin, xout, response>>

\* the compare GET succeeds: files, stats and the branch tickets
AcdCompareResolved(compareData) ==
  /\ pc = "acd_wait"
  /\ \E i \in Pending :
       /\ net[i].op = "compare"
       /\ net' = Settle(i, "ok")
  /\ LET branch == extractJiraTickets(JsStr(inv.head)) IN
     IF branch.thrown
     THEN AcdReturn(staticDescriptionOf(inv.head, inv.base))
     ELSE /\ loc' = [loc EXCEPT !.filesChanged = filesChangedOf(compareData),
                                !.stats = statsOf(compareData),
                                !.branchJiraTickets = branch.val]
          /\ pc' = "gds_start"
  /\ UNCHANGED <<inv, result, xin, xout, response>>

\* generateDetailedSummary returns its bundle to analyzeCodeDiff
GdsReturn(l, bundle) ==
  /\ loc' = [l EXCEPT !.bundle = bundle]
  /\ pc' = "acd_tickets"

\* generateDetailedSummary up to its first await, fetching the last ticket of
\* the branch name instead of the first
GdsStartFetchLast ==
  /\ pc = "gds_start"
  /\ IF ~inv.ai
     THEN /\ GdsReturn(loc, fallbackBundle(inv.head, inv.base, loc.filesChanged, loc.stats))
          /\ net' = net
     ELSE IF loc.branchJiraTickets # << >>
     THEN /\ loc' = [loc EXCEPT !.jiraCaller = "gds",
                                !.jiraTicketId = loc.branchJiraTickets[Len(loc.branchJiraTickets)]]
          /\ net' = Append(net, Request("jira", "GET", loc.branchJiraTickets[Len(loc.branchJiraTickets)]))
          /\ pc' = "jira_wait"
     ELSE /\ loc' = [loc EXCEPT !.k = 1]
          /\ pc' = "gds_llm"
          /\ net' = net
  /\ UNCHANGED <<inv, result, xin, xout, response>>

\* generateDetailedSummary up to its first await: getLLMClient() throws when
\* the AI configuration is missing; with tickets, the first one is fetched
GdsStart ==
  /\ pc = "gds_start"
  /\ IF ~inv.ai
     THEN /\ GdsReturn(loc, fallbackBundle(inv.head, inv.base, loc.filesChanged, loc.stats))
          /\ net' = net
     ELSE IF loc.branchJiraTickets # << >>
     THEN /\ loc' = [loc EXCEPT !.jiraCaller = "gds",
                                !.jiraTicketId = loc.branchJiraTickets[1]]
          /\ net' = Append(net, Request("jira", "GET", loc.branchJiraTickets[1]))
          /\ pc' = "jira_wait"
     ELSE /\ loc' = [loc EXCEPT !.k = 1]
          /\ pc' = "gds_llm"
          /\ net' = net
  /\ UNCHANGED <<inv, result, xin, xout, response>>

\* get_jira_ticket_details invoked as a tool: axios.get(jiraApiUrl, { headers })
JiraIssue ==
  /\ pc = "jira_issue"
  /\ net' = Append(net, Request("jira", "GET", loc.jiraTicketId))
  /\ pc' = "jira_wait"
  /\ UNCHANGED <<inv, loc, result, xin, xout, response>>

\* the issue-tracker GET settles, and generateDetailedSummary gives up on the
\* narrative when the fetch was not successful
JiraSettledFailureFallsBack(resp) ==
  /\ pc = "jira_wait"
  /\ \E i \in Pending :
       /\ net[i].op = "jira"
       /\ net' = Settle(i, IF resp.kind = "ok" THEN "ok" ELSE "failed")
  /\ LET r == get_jira_ticket_details(loc.jiraTicketId, resp) IN
     CASE loc.jiraCaller = "tool" ->
            /\ result' = r
            /\ pc' = IF r.thrown THEN "thrown" ELSE "returned"
            /\ loc' = loc
       [] loc.jiraCaller = "gds" ->
            /\ result' = result
            /\ IF r.thrown \/ ~r.val.success
               THEN GdsReturn(loc, fallbackBundle(inv.head, inv.base,
                                                  loc.filesChanged, loc.stats))
               ELSE /\ pc' = "gds_llm"
                    /\ loc' = [loc EXCEPT !.k = 1,
                                          !.jiraTicketDetails = jiraTicketDetailsOf(r.val)]
       [] OTHER ->
            /\ result' = result
            /\ pc' = "acd_compose"
            /\ loc' = [loc EXCEPT
                 !.figmaLinks =
                    IF ~r.thrown /\ r.val.success /\ r.val.ticket.figmaLinks # << >>
                    THEN r.val.ticket.figmaLinks ELSE << >>]
  /\ UNCHANGED <<inv, xin, xout, response>>

\* the issue-tracker GET settles; the tool's result goes to its caller
JiraSettled(resp) ==
  /\ pc = "jira_wait"
  /\ \E i \in Pending :
       /\ net[i].op = "jira"
       /\ net' = Settle(i, IF resp.kind = "ok" THEN "ok" ELSE "failed")
  /\ LET r == get_jira_ticket_details(loc.jiraTicketId, resp) IN
     CASE loc.jiraCaller = "tool" ->
            /\ result' = r
            /\ pc' = IF r.thrown THEN "thrown" ELSE "returned"
            /\ loc' = loc
       [] loc.jiraCaller = "gds" ->
            /\ result' = result
            /\ pc' = "gds_llm"
            /\ loc' = [loc EXCEPT
                 !.k = 1,
                 !.jiraTicketDetails =
                    IF r.thrown THEN [present |-> FALSE, unavailable |-> TRUE]
                    ELSE jiraTicketDetailsOf(r.val)]
       [] OTHER ->
            /\ result' = result
            /\ pc' = "acd_compose"
            /\ loc' = [loc EXCEPT
                 !.figmaLinks =
                    IF ~r.thrown /\ r.val.success /\ r.val.ticket.figmaLinks # << >>
                    THEN r.val.ticket.figmaLinks ELSE << >>]
  /\ UNCHANGED <<inv, xin, xout, response>>

LlmKind(k) == CASE k = 1 -> "description" [] k = 2 -> "keyChanges" [] OTHER -> "motivation"

\* the three prompts sent together before the first await, then awaited in turn
GdsLlmIssueAll ==
  /\ pc = "gds_llm"
  /\ net' = IF loc.k = 1
            THEN net \o <<Request("llm", LlmKind(1), << >>), Request("llm", LlmKind(2), << >>),
                          Request("llm", LlmKind(3), << >>)>>
            ELSE net
  /\ pc' = "gds_llm_wait"
  /\ UNCHANGED <<inv, loc, result, xin, xout, response>>

\* await llm.invoke(...): the k-th of the three prompts is sent
GdsLlmIssue ==
  /\ pc = "gds_llm"
  /\ net' = Append(net, Request("llm", LlmKind(loc.k), << >>))
  /\ pc' = "gds_llm_wait"
  /\ UNCHANGED <<inv, loc, result, xin, xout, response>>

\* the k-th LLM call answers; after the third the bundle is returned
GdsLlmResolved(content) ==
  /\ pc = "gds_llm_wait"
  /\ \E i \in Pending :
       /\ net[i].op = "llm"
       /\ net' = Settle(i, "ok")
  /\ LET responses == Append(loc.responses, content) IN
     IF loc.k < 3
     THEN /\ loc' = [loc EXCEPT !.responses = responses, !.k = loc.k + 1]
          /\ pc' = "gds_llm"
     ELSE GdsReturn([loc EXCEPT !.responses = responses], generatedBundle(responses))
  /\ UNCHANGED <<inv, result, xin, xout, response>>

\* the k-th LLM call fails and the catch block keeps the fragments generated
\* before it
GdsLlmRejectedPartial ==
  /\ pc = "gds_llm_wait"
  /\ \E i \in Pending :
       /\ net[i].op = "llm"
       /\ net' = Settle(i, "failed")
  /\ LET fb == fallbackBundle(inv.head, inv.base, loc.filesChanged, loc.stats) IN
     GdsReturn(loc, [fb EXCEPT !.detailedSummary =
                                  IF Len(loc.responses) >= 1 THEN loc.responses[1] ELSE @])
  /\ UNCHANGED <<inv, result, xin, xout, response>>

\* the k-th LLM call fails: the catch block returns the templated bundle
GdsLlmRejected ==
  /\ pc = "gds_llm_wait"
  /\ \E i \in Pending :
       /\ net[i].op = "llm"
       /\ net' = Settle(i, "failed")
  /\ GdsReturn(loc, fallbackBundle(inv.head, inv.base, loc.filesChanged, loc.stats))
  /\ UNCHANGED <<inv, result, xin, xout, response>>

\* analyzeCodeDiff after the bundle, with the tickets of the description
\* only: the tickets of the branch name are left out of the list
AcdTicketsDescriptionOnly ==
  /\ pc = "acd_tickets"
  /\ LET fromDescription == extractJiraTickets(loc.bundle.detailedSummary)
         fromBranch == extractJiraTickets(JsStr(inv.head))
     IN IF fromDescription.thrown \/ fromBranch.thrown
        THEN /\ AcdReturn(staticDescriptionOf(inv.head, inv.base))
             /\ net' = net
        ELSE LET all == SetOrder(fromDescription.val) IN
             IF all # << >>
             THEN /\ loc' = [loc EXCEPT !.allJiraTickets = all,
                                        !.jiraCaller = "acd",
                                        !.jiraTicketId = all[1]]
                  /\ net' = Append(net, Request("jira", "GET", all[1]))
                  /\ pc' = "jira_wait"
             ELSE /\ loc' = [loc EXCEPT !.allJiraTickets = all]
                  /\ pc' = "acd_compose"
                  /\ net' = net
  /\ UNCHANGED <<inv, result, xin, xout, response>>

\* analyzeCodeDiff after the bundle: the tickets of the description and of
\* the branch, and the fetch of the first one for its Figma links
AcdTickets ==
  /\ pc = "acd_tickets"
  /\ LET fromDescription == extractJiraTickets(loc.bundle.detailedSummary)
         fromBranch == extractJiraTickets(JsStr(inv.head))
     IN IF fromDescription.thrown \/ fromBranch.thrown
        THEN /\ AcdReturn(staticDescriptionOf(inv.head, inv.base))
             /\ net' = net
        ELSE LET all == SetOrder(fromDescription.val \o fromBranch.val) IN
             IF all # << >>
             THEN /\ loc' = [loc EXCEPT !.allJiraTickets = all,
                                        !.jiraCaller = "acd",
                                        !.jiraTicketId = all[1]]
                  /\ net' = Append(net, Request("jira", "GET", all[1]))
                  /\ pc' = "jira_wait"
             ELSE /\ loc' = [loc EXCEPT !.allJiraTickets = all]
                  /\ pc' = "acd_compose"
                  /\ net' = net
  /\ UNCHANGED <<inv, result, xin, xout, response>>

\* analyzeCodeDiff composes the description and returns it
AcdCompose ==
  /\ pc = "acd_compose"
  /\ AcdReturn(enhancedDescriptionOf(loc.bundle, loc.allJiraTickets, loc.figmaLinks,
                                     loc.filesChanged))
  /\ UNCHANGED <<inv, net, result, xin, xout, response>>

\* The bodies of a successful create-PR response; head, base and user are
\* objects, or null
PrBodies(payload) ==
  {[number |-> 7, title |-> payload.title, draft |-> payload.draft,
    head |-> h, base |-> Named("base"), user |-> u] :
     h \in {Named("head"), Null}, u \in {Named("octocat"), Null}}

\* the exception the statements after the POST raise for a response, "" for none
PrTryError(pr) ==
  CASE pr.head.t # "object" -> "Cannot read properties of null (reading 'ref')"
    [] pr.base.t # "object" -> "Cannot read properties of null (reading 'ref')"
    [] pr.user.t # "object" -> "Cannot read properties of null (reading 'login')"
    [] OTHER -> ""

\* create_pull_request: the title signature, the payload and axios.post
CprSubmit ==
  /\ pc = "cpr_submit"
  /\ LET finalTitle == finalTitleOf(inv.title)
         payload == [title |-> finalTitle, head |-> inv.head, base |-> inv.base,
                     body |-> loc.finalBody, draft |-> FALSE]
     IN /\ loc' = [loc EXCEPT !.payload = payload]
        /\ net' = Append(net, Request("createPR", "POST", inv.head))
  /\ pc' = "cpr_wait"
  /\ UNCHANGED <<inv, result, xin, xout, response>>

\* the tool resolves with r, or rejects when r is an exception
Finish(r) ==
  /\ result' = r
  /\ pc' = IF r.thrown THEN "thrown" ELSE "returned"

\* the POST succeeds: the result envelope, or the catch block when the
\* response lacks a field the envelope reads (of the envelope, the fields
\* copied from the response and includes_diff_analysis are kept)
CprPostResolved(pr) ==
  /\ pc = "cpr_wait"
  /\ \E i \in Pending :
       /\ net[i].op = "createPR"
       /\ net' = Settle(i, "ok")
  /\ IF PrTryError(pr) = ""
     THEN Finish(Returned(
            [success |-> TRUE,
             pull_request |-> [number |-> pr.number, title |-> pr.title,
                               draft |-> pr.draft, head |-> pr.head.name,
                               base |-> pr.base.name, user |-> pr.user.name,
                               includes_diff_analysis |-> inv.include]]))
     ELSE Finish(handleGitHubError(TypeErrorOf(PrTryError(pr)), "create pull request"))
  /\ UNCHANGED <<inv, loc, xin, xout, response>>

\* the POST fails and is sent once more before the error is handled
CprPostRejectedRetried(error) ==
  /\ pc = "cpr_wait"
  /\ \E i \in Pending :
       /\ net[i].op = "createPR"
       /\ net' = Settle(i, "failed")
  /\ IF Cardinality({i \in 1 .. Len(net) : net[i].op = "createPR"}) < 2
     THEN pc' = "cpr_submit" /\ result' = result
     ELSE Finish(handleGitHubError(error, "create pull request"))
  /\ UNCHANGED <<inv, loc, xin, xout, response>>

\* the POST fails: return handleGitHubError(error, 'create pull request')
CprPostRejected(error) ==
  /\ pc = "cpr_wait"
  /\ \E i \in Pending :
       /\ net[i].op = "createPR"
       /\ net' = Settle(i, "failed")
  /\ Finish(handleGitHubError(error, "create pull request"))
  /\ UNCHANGED <<inv, loc, xin, xout, response>>

\* generate_pr_summary: axios.get(repoUrl, { headers }) after the analysis
GpsIssueRepo ==
  /\ pc = "gps_issue"
  /\ net' = Append(net, Request("repo", "GET", << >>))
  /\ pc' = "gps_wait"
  /\ UNCHANGED <<inv, loc, result, xin, xout, response>>

GpsRepoResolved ==
  /\ pc = "gps_wait"
  /\ \E i \in Pending :
       /\ net[i].op = "repo"
       /\ net' = Settle(i, "ok")
  /\ Finish(Returned(
       [success |-> TRUE,
        summary |-> [head_branch |-> inv.head, base_branch |-> inv.base,
                     generated_description |-> loc.enhancedDescription]]))
  /\ UNCHANGED <<inv, loc, xin, xout, response>>

GpsRepoRejected(error) ==
  /\ pc = "gps_wait"
  /\ \E i \in Pending :
       /\ net[i].op = "repo"
       /\ net' = Settle(i, "failed")
  /\ Finish(handleGitHubError(error, "generate PR summary"))
  /\ UNCHANGED <<inv, loc, xin, xout, response>>

\* get_repository_info: Promise.all([axios.get(repoUrl), axios.get(branchesUrl)]),
\* both requests are issued before either is awaited
GriIssue ==
  /\ pc = "gri_issue"
  /\ net' = net \o <<Request("repo", "GET", << >>), Request("branches", "GET", << >>)>>
  /\ pc' = "gri_wait"
  /\ UNCHANGED <<inv, loc, result, xin, xout, response>>

\* one of the two requests succeeds; the tool resolves when both have
GriResolved(i) ==
  /\ pc = "gri_wait"
  /\ i \in Pending
  /\ net' = Settle(i, "ok")
  /\ IF Pending = {i}
     THEN Finish(Returned([success |-> TRUE,
                           repository |-> [name |-> "repo", branches |-> <<"main">>]]))
     ELSE UNCHANGED <<pc, result>>
  /\ UNCHANGED <<inv, loc, xin, xout, response>>

\* one of the two requests fails: Promise.all rejects at once, the other
\* request is left outstanding
GriRejected(i, error) ==
  /\ pc = "gri_wait"
  /\ i \in Pending
  /\ net' = Settle(i, "failed")
  /\ Finish(handleGitHubError(error, "get repository information"))
  /\ UNCHANGED <<inv, loc, xin, xout, response>>

\* a request still outstanding after the tool has returned settles unobserved
LateSettle(i, st) ==
  /\ pc \in {"returned", "thrown", "responded"}
  /\ i \in Pending
  /\ net' = Settle(i, st)
  /\ UNCHANGED <<inv, pc, loc, result, xin, xout, response>>

-----------------------------------------------------------------------------
(* The MCP server: the handler of tool-call requests *)

\* the keys of the TOOLS table
TOOLS == {"create_pull_request", "get_repository_info", "get_jira_ticket_details",
          "generate_pr_summary"}

\* createResponse(data, isError): one text part holding JSON.stringify(data),
\* which keeps every field of the envelopes (none has an undefined value),
\* and isError only when it is set
createResponse(data, isError) ==
  IF isError
  THEN [sent |-> TRUE, content |-> <<[type |-> "text", json |-> data]>>, isError |-> TRUE]
  ELSE [sent |-> TRUE, content |-> <<[type |-> "text", json |-> data]>>]

\* the tool-call requests: a tool of the table with its arguments, or a name
\* the table does not have
McpRequests ==
  {[a EXCEPT !.via = "mcp"] :
     a \in {b \in Invocations : b.title \in {<< >>, <<"F","i","x">>} /\ b.body = << >>}}
  \cup {[NoArgs EXCEPT !.via = "mcp", !.tool = "delete_branch"]}

\* a tool-call request arrives: const { name, arguments: args } = request.params
McpRequest(a) ==
  /\ pc = "idle"
  /\ inv' = a
  /\ pc' = "mcp_lookup"
  /\ UNCHANGED <<net, loc, result, xin, xout, response>>

\* const tool = TOOLS[name]; an unknown name throws inside the try block and
\* the catch block answers; a known tool is invoked with the arguments
McpLookup ==
  /\ pc = "mcp_lookup"
  /\ IF inv.tool \notin TOOLS
     THEN /\ response' = createResponse([error |-> "Unknown tool: " \o inv.tool], TRUE)
          /\ pc' = "responded"
          /\ loc' = loc
     ELSE /\ response' = response
          /\ pc' = IF inv.tool = "get_jira_ticket_details" THEN "jira_issue" ELSE "validate"
          /\ loc' = IF inv.tool = "get_jira_ticket_details"
                    THEN [loc EXCEPT !.jiraCaller = "tool", !.jiraTicketId = inv.ticketId]
                    ELSE loc
  /\ UNCHANGED <<inv, net, result, xin, xout>>

\* the tool has settled: return createResponse(result), or in the catch block
\* createResponse({ error: error.message }, true)
McpRespond ==
  /\ pc \in {"returned", "thrown"}
  /\ inv.via = "mcp"
  /\ response' = IF result.thrown
                 THEN createResponse([error |-> result.val], TRUE)
                 ELSE createResponse(result.val, FALSE)
  /\ pc' = "responded"
  /\ UNCHANGED <<inv, net, loc, result, xin, xout>>

-----------------------------------------------------------------------------
(* Specification of the tool invocations *)

Next ==
  \/ \E a \in Invocations : Invoke(a)
  \/ \E a \in McpRequests : McpRequest(a)
  \/ McpLookup
  \/ McpRespond
  \/ ValidateToken
  \/ AcdIssueCompare
  \/ AcdCompareRejected
  \/ \E d \in CompareBodies : AcdCompareResolved(d)
  \/ GdsStart
  \/ JiraIssue
  \/ \E r \in JiraResponses(loc.jiraTicketId) : JiraSettled(r)
  \/ GdsLlmIssue
  \/ \E c \in LlmContents(loc.k) : GdsLlmResolved(c)
  \/ GdsLlmRejected
  \/ AcdTickets
  \/ AcdCompose
  \/ CprSubmit
  \/ pc = "cpr_wait" /\ \E pr \in PrBodies(loc.payload) : CprPostResolved(pr)
  \/ \E e \in HttpErrors : CprPostRejected(e)
  \/ GpsIssueRepo
  \/ GpsRepoResolved
  \/ \E e \in HttpErrors : GpsRepoRejected(e)
  \/ GriIssue
  \/ \E i \in Pending : GriResolved(i)
  \/ \E i \in Pending, e \in HttpErrors : GriRejected(i, e)
  \/ \E i \in Pending, st \in {"ok", "failed"} : LateSettle(i, st)

Spec == Init /\ [][Next]_vars

-----------------------------------------------------------------------------
(* Specification of the ticket reference extractor on its own: *)
(* extractJiraTickets applied to a text                         *)

\* the pieces the scanned texts are assembled from
Frags == {<<"A","B","-","1","2">>, <<"C","-","3">>, <<"a","b","-","9">>,
          <<"-">>, <<" ">>, <<"_">>, <<"X">>, <<"4">>}

RECURSIVE Flatten(_)
Flatten(pieces) ==
  IF pieces = << >> THEN << >> ELSE Head(pieces) \o Flatten(Tail(pieces))

ExampleMixed ==
  <<"F","i","x"," ","A","B","C","-","1","2","3"," ","a","n","d"," ","a",
    "b","c","-","9","9","9"," ","f","o","r"," ","A","B","C","-","1","2",
    "3","/","u","i">>
ExampleNoSeparator == <<"A","B","C","-","1","2","3","X">>
ExampleHyphen == <<"A","B","C","-","1","2","3","-","f","i","x">>
ExampleAtEnd == <<"A","B","C","-","1","2","3">>

Texts ==
  {Flatten(ps) : ps \in UNION {[1 .. n -> Frags] : n \in 0 .. MaxFrags}}
  \cup {ExampleMixed, ExampleNoSeparator, ExampleHyphen, ExampleAtEnd}

InitExtract ==
  /\ inv = NoArgs
  /\ pc = "idle"
  /\ net = << >>
  /\ loc = NoLoc
  /\ result = NoResult
  /\ xin \in {JsStr(t) : t \in Texts}
  /\ xout = NotCalled
  /\ response = NoResponse

\* the extractor is applied to the text
ExtractCall ==
  /\ ~xout.done
  /\ xout' = [done |-> TRUE, out |-> extractJiraTickets(xin)]
  /\ UNCHANGED <<inv, pc, net, loc, result, xin, response>>

NextExtract == ExtractCall

SpecExtract == InitExtract /\ [][NextExtract]_vars

-----------------------------------------------------------------------------
(* Properties of the ticket reference extractor *)

Separators == {"_", "-", "/", " ", "\t", "\n"}

\* the grammar ^[A-Z][A-Z0-9]*-[0-9]+$
IsTicketRef(t) ==
  \E h \in 2 .. Len(t) - 1 :
    /\ t[1] \in Upper
    /\ \A p \in 2 .. h - 1 : t[p] \in Upper \cup Digit
    /\ t[h] = "-"
    /\ \A p \in h + 1 .. Len(t) : t[p] \in Digit

\* t is spelled in text from index i on
SpelledAt(text, t, i) ==
  /\ i + Len(t) - 1 <= Len(text)
  /\ SubSeq(text, i, i + Len(t) - 1) = t

\* the character after the spelling of t at i is a separator, or there is none
SeparatedAt(text, t, i) ==
  i + Len(t) > Len(text) \/ text[i + Len(t)] \in Separators

\* an occurrence of the ticket t: spelled at i as a whole token
OccursAt(text, t, i) ==
  /\ SpelledAt(text, t, i)
  /\ SeparatedAt(text, t, i)
  /\ (i = 1 \/ text[i - 1] \notin WordChar)

\* the index of the first occurrence of t, 0 when there is none
FirstOccurrence(text, t) ==
  LET occ == {i \in 1 .. Len(text) : OccursAt(text, t, i)} IN
  IF occ = {} THEN 0 ELSE CHOOSE i \in occ : \A j \in occ : i <= j

Extracted == xout.done /\ ~xout.out.thrown

\* C7: for every text the extractor returns a list without duplicates, in the
\* order of the first occurrence of each ticket in the text, and no returned
\* ticket has a lowercase letter; "Fix ABC-123 and abc-999 for ABC-123/ui"
\* yields ["ABC-123"]
C7_NoDuplicatesFirstOccurrenceOrder ==
  Extracted =>
    LET out == xout.out.val
        text == xin.v
    IN /\ \A p, q \in 1 .. Len(out) : p < q => out[p] # out[q]
       /\ \A p \in 1 .. Len(out) : FirstOccurrence(text, out[p]) > 0
       /\ \A p, q \in 1 .. Len(out) :
            p < q => FirstOccurrence(text, out[p]) < FirstOccurrence(text, out[q])
       /\ \A p \in 1 .. Len(out) : \A c \in 1 .. Len(out[p]) : out[p][c] \notin Lower
       /\ (text = ExampleMixed => out = <<ExampleAtEnd>>)

\* a text where a ticket occurs twice and a different ticket occurs too
C7_Witness ==
  /\ Extracted
  /\ Len(xout.out.val) = 2
  /\ \E i, j \in 1 .. Len(xin.v) :
       i < j /\ OccursAt(xin.v, xout.out.val[2], i) /\ OccursAt(xin.v, xout.out.val[2], j)

\* C8: every returned reference matches the ticket grammar and is spelled in
\* the text right before a separator or the end of the text, the separator
\* not being part of it; "ABC-123X" yields nothing, "ABC-123-fix" and a
\* trailing "ABC-123" yield "ABC-123"
C8_SeparatorAfterDigits ==
  Extracted =>
    LET out == xout.out.val
        text == xin.v
    IN /\ \A p \in 1 .. Len(out) :
            /\ IsTicketRef(out[p])
            /\ \E i \in 1 .. Len(text) :
                 SpelledAt(text, out[p], i) /\ SeparatedAt(text, out[p], i)
       /\ (text = ExampleNoSeparator => out = << >>)
       /\ (text = ExampleHyphen => out = <<ExampleAtEnd>>)
       /\ (text = ExampleAtEnd => out = <<ExampleAtEnd>>)

\* a text where the digits of a ticket are followed by a letter, and nothing
\* is returned for them
C8_Witness ==
  /\ Extracted
  /\ xout.out.val = << >>
  /\ \E i \in 1 .. Len(xin.v) - 5 :
       /\ SubSeq(xin.v, i, i + 4) = <<"A","B","-","1","2">>
       /\ xin.v[i + 5] = "X"

-----------------------------------------------------------------------------
(* Properties of the tool invocations *)

Ended == pc \in {"returned", "thrown"}

\* the requests of an operation, and those of them that failed
Issued(op) == {i \in 1 .. Len(net) : net[i].op = op}
Failed(op) == {i \in 1 .. Len(net) : net[i].op = op /\ net[i].st = "failed"}

TokenMissing == inv.token = "undefined" \/ inv.token = ""

\* C1: without a GitHub token create_pull_request returns success=false with
\* an error and instructions, and no request is ever issued
C1_NoTokenNoRequest ==
  (inv.tool = "create_pull_request" /\ TokenMissing) =>
    /\ net = << >>
    /\ pc \in {"mcp_lookup", "validate", "returned", "responded"}
    /\ (pc = "returned" =>
          /\ result.val.success = FALSE
          /\ {"error", "instructions"} \subseteq DOMAIN result.val)

C1_Witness ==
  /\ inv.tool = "create_pull_request"
  /\ inv.token = ""
  /\ pc = "returned"

CprEnriched == inv.tool = "create_pull_request" /\ inv.include /\ ~TokenMissing

\* the description response is a value the extractor cannot scan
SummaryUnscannable ==
  /\ "detailedSummary" \in DOMAIN loc.bundle
  /\ loc.bundle.detailedSummary.t # "str"

\* C2 as stated: whenever a step of the enrichment chain has failed, the body
\* of the create-PR POST is the static template
C2_AnyFailureGivesStaticBody ==
  (CprEnriched /\ pc = "cpr_wait"
     /\ (Failed("compare") # {} \/ Failed("jira") # {} \/ Failed("llm") # {})) =>
    loc.payload.body = staticDescriptionOf(inv.head, inv.base)

\* C2 amended: no failure of the enrichment chain ends create_pull_request
\* before the create-PR POST is issued; the static template is the body when
\* the compare GET failed or the description could not be scanned for
\* tickets, otherwise the composed description is, with the templated bundle
\* in it when an LLM call failed
C2_EnrichmentFailureAbsorbed ==
  CprEnriched =>
    /\ (Ended => Issued("createPR") # {})
    /\ (pc = "cpr_wait" =>
          IF Failed("compare") # {} \/ SummaryUnscannable
          THEN loc.payload.body = staticDescriptionOf(inv.head, inv.base)
          ELSE /\ loc.payload.body # staticDescriptionOf(inv.head, inv.base)
               /\ loc.payload.body[1] = Part("Description", loc.bundle.detailedSummary)
               /\ (Failed("llm") # {} =>
                     loc.bundle.detailedSummary =
                       fallbackSummary(inv.head, inv.base, Len(loc.filesChanged),
                                       loc.stats.additions, loc.stats.deletions)))

\* an LLM call and a ticket fetch failed, and the composed description is posted
C2_Witness ==
  /\ CprEnriched
  /\ pc = "cpr_wait"
  /\ Failed("llm") # {}
  /\ Failed("jira") # {}
  /\ loc.payload.body # staticDescriptionOf(inv.head, inv.base)

HasBundle == "detailedSummary" \in DOMAIN loc.bundle

\* C3: the bundle generateDetailedSummary returns is the templated fallback in
\* all three fields when an LLM call failed, and otherwise either the three
\* LLM answers or (no call made) the fallback: never a mix
C3_BundleAllOrNothing ==
  HasBundle =>
    LET fbSummary == fallbackSummary(inv.head, inv.base, Len(loc.filesChanged),
                                     loc.stats.additions, loc.stats.deletions)
        fbKey == fallbackKeyChanges(Len(loc.filesChanged), loc.stats.additions,
                                    loc.stats.deletions)
        allFallback == /\ loc.bundle.detailedSummary = fbSummary
                       /\ loc.bundle.keyChanges = fbKey
                       /\ loc.bundle.motivationContext = fallbackMotivation
        allGenerated == /\ Len(loc.responses) = 3
                        /\ loc.bundle.detailedSummary = loc.responses[1]
                        /\ loc.bundle.keyChanges = loc.responses[2]
                        /\ loc.bundle.motivationContext = loc.responses[3]
    IN /\ (Failed("llm") # {} => allFallback)
       /\ (Failed("llm") = {} /\ Issued("llm") # {} => allGenerated)
       /\ (allFallback \/ allGenerated)

\* the second call failed after the first had produced a description
C3_Witness ==
  /\ HasBundle
  /\ Len(loc.responses) = 1
  /\ \E i \in Failed("llm") : net[i].kind = "keyChanges"

\* the issue-tracker call failed: no response, a non-2xx status, a body that
\* is not an object, no fields object, or no status or issue type in it
JiraCallFailed(resp) ==
  \/ resp.kind # "ok"
  \/ resp.body.t # "object"
  \/ resp.body.fields.t # "object"
  \/ resp.body.fields.status.t # "object"
  \/ resp.body.fields.issuetype.t # "object"

\* C4: for every failure of the issue-tracker call get_jira_ticket_details
\* does not throw: it returns success=false and the placeholder ticket with
\* the requested key, status "Unknown" and no Figma links
C4_TicketFetchNeverThrows ==
  [][\A resp \in JiraResponses(loc.jiraTicketId) :
       (JiraSettled(resp) /\ JiraCallFailed(resp)) =>
          /\ pc' # "thrown"
          /\ (loc.jiraCaller = "tool" =>
                /\ pc' = "returned"
                /\ result'.val.success = FALSE
                /\ result'.val.ticket.key = loc.jiraTicketId
                /\ result'.val.ticket.status = "Unknown"
                /\ result'.val.ticket.figmaLinks = << >>)]_vars

\* the tool returned the placeholder although the GET itself had succeeded
C4_Witness ==
  /\ inv.tool = "get_jira_ticket_details"
  /\ pc = "returned"
  /\ result.val.success = FALSE
  /\ Failed("jira") = {}

GitHubTool ==
  inv.tool \in {"create_pull_request", "get_repository_info", "generate_pr_summary"}

\* C5: a failed create-PR POST, repository GET or branches GET ends the tool
\* with a returned envelope {success: false, error, details}, never with an
\* exception
C5_GitHubFailureReturnsEnvelope ==
  (GitHubTool /\ Ended
     /\ (Failed("createPR") # {} \/ Failed("repo") # {} \/ Failed("branches") # {})) =>
    /\ pc = "returned"
    /\ result.val.success = FALSE
    /\ {"error", "details"} \subseteq DOMAIN result.val

\* C6: with a non-empty custom body and diff analysis, the body of the
\* create-PR POST starts with the custom body text
C6_CustomBodyPrepended ==
  (CprEnriched /\ inv.body # << >> /\ pc = "cpr_wait") =>
    /\ loc.payload.body # << >>
    /\ loc.payload.body[1] = Part("text", JsStr(inv.body))

\* C9: the extractor raises for neither of the two values analyzeCodeDiff
\* hands it, the head branch name and the content of the description response
C9_ExtractorTotal ==
  (pc = "acd_tickets") =>
    /\ ~extractJiraTickets(JsStr(inv.head)).thrown
    /\ ~extractJiraTickets(loc.bundle.detailedSummary).thrown

\* the number of times the signature is repeated at the end of a title
RECURSIVE SignatureCount(_)
SignatureCount(title) ==
  IF Len(title) >= 3 /\ title[Len(title) - 2] = " " /\ title[Len(title) - 1] = "uD83E"
     /\ title[Len(title)] = "uDD16"
  THEN 1 + SignatureCount(SubSeq(title, 1, Len(title) - 3))
  ELSE 0

Submitted == inv.tool = "create_pull_request" /\ pc = "cpr_wait"

\* C10 as stated: the submitted title ends with the signature exactly once
C10_SignatureExactlyOnce ==
  Submitted => SignatureCount(loc.payload.title) = 1

\* C10 amended: the submitted title ends with the signature; a title that
\* already ends with it is submitted unchanged, any other title gets the
\* signature appended once; the suffix step leaves its own output unchanged
C10_SuffixIdempotent ==
  Submitted =>
    /\ SignatureCount(loc.payload.title) >= 1
    /\ (SignatureCount(inv.title) >= 1 => loc.payload.title = inv.title)
    /\ (SignatureCount(inv.title) = 0 =>
          /\ loc.payload.title = inv.title \o <<" ", "uD83E", "uDD16">>
          /\ SignatureCount(loc.payload.title) = 1)
    /\ finalTitleOf(loc.payload.title) = loc.payload.title

\* a title that already ended with the signature was submitted as it was
C10_Witness ==
  /\ Submitted
  /\ SignatureCount(inv.title) = 1
  /\ loc.payload.title = inv.title

-----------------------------------------------------------------------------
(* Properties of the description analyzeCodeDiff returns *)

\* analyzeCodeDiff has returned its description to the tool
AcdDone == loc.enhancedDescription # << >>

\* analyzeCodeDiff has just returned: the tool is at its next statement
AcdReturned == AcdDone /\ pc \in {"cpr_submit", "gps_issue"}

\* the description is the template of the try block, not of the catch block
Composed ==
  /\ AcdReturned
  /\ loc.enhancedDescription # staticDescriptionOf(inv.head, inv.base)

SectionOf(desc, name) == (CHOOSE p \in 1 .. Len(desc) : desc[p].sec = name)

\* the ticket IDs the Jira Ticket section lists, in order
ListedTickets ==
  LET links == loc.enhancedDescription[SectionOf(loc.enhancedDescription, "Jira Ticket")].val.links
  IN [p \in 1 .. Len(links) |-> links[p].ticket]

Range(seq) == {seq[p] : p \in 1 .. Len(seq)}

\* the ticket references of a text, none when the text cannot be scanned
TicketsIn(text) ==
  LET r == extractJiraTickets(text) IN IF r.thrown THEN {} ELSE Range(r.val)

\* C11: in every description analyzeCodeDiff returns, each ticket ID listed
\* in the Jira Ticket section was extracted from the generated summary text
\* or from the head branch name, and no ticket ID is listed twice
C11_ListedTicketsFromSummaryOrBranch ==
  AcdReturned =>
    LET listed == ListedTickets
        union == (IF HasBundle THEN TicketsIn(loc.bundle.detailedSummary) ELSE {})
                 \cup TicketsIn(JsStr(inv.head))
    IN /\ \A p \in 1 .. Len(listed) : listed[p] \in union
       /\ \A p, q \in 1 .. Len(listed) : listed[p] = listed[q] => p = q

\* the summary and the branch name both name AB-12, and the branch a second
\* ticket: two tickets are listed
C11_Witness ==
  /\ Composed
  /\ <<"A","B","-","1","2">> \in TicketsIn(loc.bundle.detailedSummary)
  /\ <<"A","B","-","1","2">> \in TicketsIn(JsStr(inv.head))
  /\ Len(ListedTickets) = 2

TicketHead ==
  <<"T","I","C","K","E","T","-","1","2","3","4","5","-","f","e","a","t","u","r","e">>

Ticket12345 == <<"T","I","C","K","E","T","-","1","2","3","4","5">>

\* the end-to-end scenario: the branch pair and an empty custom body
Scenario == inv.head = TicketHead /\ inv.base = Base /\ inv.body = << >>

ChangeAnalysis ==
  loc.enhancedDescription[SectionOf(loc.enhancedDescription, "Change Analysis")].val

\* the files of the change-set with a status
WithStatus(status) ==
  {p \in 1 .. Len(loc.filesChanged) : loc.filesChanged[p].status = status}

\* C13: in the composed change-analysis block New Files Added is the number
\* of added files, Files Modified of modified files, Files Deleted of removed
\* files and Total Files Changed the number of files; 2 modified and 1 added
\* report 1, 2, 0, 3, and a renamed file counts towards the total only
C13_CountsByStatus ==
  Composed =>
    /\ ChangeAnalysis.newFiles = Cardinality(WithStatus("added"))
    /\ ChangeAnalysis.modified = Cardinality(WithStatus("modified"))
    /\ ChangeAnalysis.deleted = Cardinality(WithStatus("removed"))
    /\ ChangeAnalysis.total = Len(loc.filesChanged)
    /\ ChangeAnalysis.newFiles + ChangeAnalysis.modified + ChangeAnalysis.deleted
         = ChangeAnalysis.total - Cardinality(WithStatus("renamed"))
    /\ ([p \in 1 .. Len(loc.filesChanged) |-> loc.filesChanged[p].status]
           = <<"modified", "added", "modified">> =>
          /\ ChangeAnalysis.newFiles = 1
          /\ ChangeAnalysis.modified = 2
          /\ ChangeAnalysis.deleted = 0
          /\ ChangeAnalysis.total = 3)

\* a change-set of five files, one of them renamed: four are counted by
\* status and five in total
C13_Witness ==
  /\ Composed
  /\ WithStatus("renamed") # {}
  /\ ChangeAnalysis.newFiles + ChangeAnalysis.modified + ChangeAnalysis.deleted = 4
  /\ ChangeAnalysis.total = 5

\* the compare GET has succeeded
CompareOk == \E i \in Issued("compare") : net[i].st = "ok"

\* the compare response had no files: the fields absent, or the list empty
NoFiles == CompareOk /\ loc.filesChanged = << >>

\* C14: a compare response without files is an empty change-set, not a
\* failure: the step that receives it goes on to generateDetailedSummary with
\* no files and zero stats instead of returning the static template, the
\* description is then the composed one (unless the summary cannot be
\* scanned for tickets), and its change-analysis block reports 0 for the
\* four counts and has no File Type Analysis
C14_NoFilesIsEmptyChangeSet ==
  [][(/\ (pc = "acd_wait" /\ NoFiles') =>
            /\ pc' = "gds_start"
            /\ ~AcdDone'
            /\ loc'.stats = [additions |-> 0, deletions |-> 0, total |-> 0]
      /\ (NoFiles' /\ AcdReturned') =>
            /\ HasBundle'
            /\ (~SummaryUnscannable' => Composed')
      /\ (NoFiles' /\ Composed') =>
            /\ ChangeAnalysis'.newFiles = 0
            /\ ChangeAnalysis'.modified = 0
            /\ ChangeAnalysis'.deleted = 0
            /\ ChangeAnalysis'.total = 0
            /\ ChangeAnalysis'.fileTypes = << >>)]_vars

\* a composed description of an empty change-set, its narrative generated
C14_Witness ==
  /\ NoFiles
  /\ Composed
  /\ Len(loc.responses) = 3
  /\ ChangeAnalysis.total = 0

\* the position in the change-set of the first file with an extension
FirstSeen(ext) ==
  CHOOSE p \in 1 .. Len(loc.filesChanged) :
    /\ extensionOf(loc.filesChanged[p].filename) = ext
    /\ \A q \in 1 .. p - 1 : extensionOf(loc.filesChanged[q].filename) # ext

\* C15: the file type histogram of the composed description lists the
\* extensions by descending count, and extensions of equal count in the order
\* in which they were first met in the change-set, numeric extensions included
C15_HistogramByCountThenEncounter ==
  Composed =>
    LET h == ChangeAnalysis.fileTypes IN
    \A p, q \in 1 .. Len(h) :
      p < q =>
        /\ h[p].count >= h[q].count
        /\ (h[p].count = h[q].count => FirstSeen(h[p].ext) < FirstSeen(h[q].ext))

-----------------------------------------------------------------------------
(* Properties of the tool-call handler *)

\* the envelope the handler answered with
Envelope == response.content[1].json

\* C16: every answer of the tool-call handler is an envelope with a boolean
\* success field: on success, without a token, after an upstream failure, for
\* an unknown tool name and after an exception raised by the tool
C16_EveryResponseHasSuccess ==
  response.sent =>
    /\ "success" \in DOMAIN Envelope
    /\ Envelope.success \in BOOLEAN

-----------------------------------------------------------------------------
(* Properties of the order of the outbound requests *)

\* C17: within one tool invocation at most one outbound request awaits its
\* response at any time, for every tool, get_repository_info included
C17_AtMostOneInFlight == Cardinality(Pending) <= 1

-----------------------------------------------------------------------------
(* Properties of the phases of create_pull_request *)

\* the phase of the orchestrator: 0 idle, 1 validating-credentials,
\* 2 analyzing-diff, 3 submitting, 4 done or failed
Phase ==
  CASE pc \in {"idle", "mcp_lookup"} -> 0
    [] pc = "validate" -> 1
    [] pc \in {"acd_issue", "acd_wait", "gds_start", "jira_issue", "jira_wait", "gds_llm",
               "gds_llm_wait", "acd_tickets", "acd_compose"} -> 2
    [] pc \in {"cpr_submit", "cpr_wait"} -> 3
    [] OTHER -> 4

\* the requests of the enrichment step
EnrichmentRequests == Issued("compare") \cup Issued("jira") \cup Issued("llm")

\* one step of a create_pull_request invocation
PhaseStep ==
  /\ Phase' = CASE Phase = 0 -> IF pc' = "mcp_lookup" THEN 0 ELSE 1
                 [] Phase = 1 -> IF TokenMissing THEN 4 ELSE IF inv.include THEN 2 ELSE 3
                 [] Phase = 2 -> IF AcdDone' THEN 3 ELSE 2
                 [] Phase = 3 -> IF pc = "cpr_submit" THEN 3 ELSE 4
                 [] OTHER -> 4
  /\ (Phase' = 2 => inv'.include /\ ~AcdDone')
  /\ Cardinality(Issued("createPR")') =
       (IF (Phase' = 4 /\ ~TokenMissing') \/ pc' = "cpr_wait" THEN 1 ELSE 0)
  /\ (Issued("createPR")' # {} =>
        /\ (inv'.include <=> AcdDone')
        /\ \A i \in EnrichmentRequests' : net'[i].st # "pending")
  /\ (EnrichmentRequests' # {} => inv'.include)

\* C18: create_pull_request goes through idle, validating-credentials,
\* analyzing-diff (entered exactly when include_diff_analysis is true),
\* submitting and done or failed in this order and never back; once the
\* token is validated the create-PR POST is issued exactly once, after the
\* enrichment step has returned
C18_PhasesInOrder ==
  [][inv'.tool = "create_pull_request" => PhaseStep]_vars

\* a run with the analysis has ended: the three LLM calls were made before
\* the one POST
C18_Witness ==
  /\ inv.tool = "create_pull_request"
  /\ inv.include
  /\ pc = "returned"
  /\ result.val.success
  /\ Cardinality(Issued("llm")) = 3
  /\ Cardinality(Issued("createPR")) = 1
  /\ \A i \in Issued("llm"), j \in Issued("createPR") : i < j

-----------------------------------------------------------------------------
(* Properties of the LLM calls and of the ticket fetches *)

\* the position of an LLM call among the LLM calls of the invocation
LlmRank(i) == Cardinality({j \in Issued("llm") : j <= i})

\* C19: the three LLM calls are issued one after another in the order
\* description, key changes, motivation, each only after the one before it
\* has returned successfully: after a failed call no further call is issued
C19_LlmCallsInSequence ==
  /\ Cardinality(Issued("llm")) <= 3
  /\ \A i \in Issued("llm") : net[i].kind = LlmKind(LlmRank(i))
  /\ \A i, j \in Issued("llm") : i < j => net[i].st = "ok"
  /\ \A i \in Failed("llm") :
       (Ended \/ pc = "responded") => LlmRank(i) = Cardinality(Issued("llm"))

\* the key changes call failed and the invocation ended without a
\* motivation call
C19_Witness ==
  /\ Ended
  /\ Cardinality(Issued("llm")) = 2
  /\ \E i \in Failed("llm") : net[i].kind = "keyChanges"

\* an enrichment run: a tool that calls analyzeCodeDiff
EnrichmentRun == inv.tool \in {"create_pull_request", "generate_pr_summary"}

\* the ticket references of the head branch name, in order
BranchTickets == extractJiraTickets(JsStr(inv.head)).val

\* C20 as stated: in an enrichment run every ticket fetch is for the first
\* ticket reference of the head branch name
C20_OnlyFirstBranchTicketFetched ==
  EnrichmentRun =>
    \A i \in Issued("jira") :
      /\ BranchTickets # << >>
      /\ net[i].target = BranchTickets[1]

\* C20 amended: an enrichment run fetches at most two tickets: before the
\* narrative is generated the first ticket reference of the head branch name,
\* and after it the first ticket of the list of the Jira Ticket section,
\* which is the first reference found in the summary text when there is one
\* and the first branch ticket otherwise; no other ticket is fetched
C20_OnlyFirstTicketsFetched ==
  EnrichmentRun =>
    /\ Cardinality(Issued("jira")) <= 2
    /\ (pc = "jira_wait" =>
          \A i \in Pending :
            IF ~HasBundle
            THEN /\ Issued("jira") = {i}
                 /\ BranchTickets # << >>
                 /\ net[i].target = BranchTickets[1]
            ELSE LET inSummary == extractJiraTickets(loc.bundle.detailedSummary).val IN
                 /\ \A j \in Issued("jira") \ {i} : j < i /\ net[j].target = BranchTickets[1]
                 /\ net[i].target = IF inSummary # << >> THEN inSummary[1]
                                     ELSE BranchTickets[1]
                 /\ (inSummary = << >> => BranchTickets # << >>))

\* the branch names AB-12 and C-3 and the summary XY-7: AB-12 was fetched
\* for the prompts, XY-7 is being fetched for its Figma links, C-3 is not
C20_Witness ==
  /\ EnrichmentRun
  /\ pc = "jira_wait"
  /\ Cardinality(Issued("jira")) = 2
  /\ \E i \in Pending : net[i].target = <<"X","Y","-","7">>
  /\ BranchTickets = <<<<"A","B","-","1","2">>, <<"C","-","3">>>>

-----------------------------------------------------------------------------
(* Properties of the requests after a failure *)

\* two requests of the same operation for the same target
SameRequest(i, j) ==
  /\ net[i].op = net[j].op
  /\ net[i].kind = net[j].kind
  /\ net[i].target = net[j].target

\* C21 as stated: once a request has failed, no second request of the same
\* operation for the same target is sent in the invocation
C21_NothingSentAgainAfterFailure ==
  \A i, j \in 1 .. Len(net) :
    (i < j /\ SameRequest(i, j)) => net[i].st # "failed"

\* C21 amended: the compare GET, each of the three LLM prompts and the
\* create-PR POST are sent at most once and the issue-tracker GET at most
\* twice; the only request sent again after it failed is the fetch of the
\* first ticket, which analyzeCodeDiff makes after the LLM calls for the
\* ticket generateDetailedSummary fetched before them
C21_NoRetryButTicketFetchedTwice ==
  /\ Cardinality(Issued("compare")) <= 1
  /\ Cardinality(Issued("createPR")) <= 1
  /\ Cardinality(Issued("repo")) <= 1
  /\ Cardinality(Issued("branches")) <= 1
  /\ Cardinality(Issued("jira")) <= 2
  /\ \A i, j \in 1 .. Len(net) :
       (i < j /\ SameRequest(i, j)) =>
         /\ net[i].op = "jira"
         /\ net[i].st # "pending"
         /\ \E k \in Issued("llm") : i < k /\ k < j

\* the fetch of AB-12 failed in generateDetailedSummary and AB-12 is fetched
\* again by analyzeCodeDiff
C21_Witness ==
  /\ pc = "jira_wait"
  /\ \E i \in Failed("jira") : \E j \in Pending : i < j /\ SameRequest(i, j)

-----------------------------------------------------------------------------
(* Properties of the callers of the ticket fetch *)

HasSection(desc, name) == \E p \in 1 .. Len(desc) : desc[p].sec = name

\* the ticket fetch resolves with success=false for the response resp
FetchUnsuccessful(resp) ==
  LET r == get_jira_ticket_details(loc.jiraTicketId, resp)
  IN ~r.thrown /\ ~r.val.success

\* C22: when the ticket fetch resolves with success=false,
\* generateDetailedSummary puts no ticket-details block into the prompt
\* context and analyzeCodeDiff takes no Figma links from the placeholder
\* ticket, and a description composed without Figma links has no Figma Links
\* section
C22_PlaceholderFieldsUnused ==
  [][(/\ \A resp \in JiraResponses(loc.jiraTicketId) :
          (pc = "jira_wait" /\ JiraSettled(resp) /\ FetchUnsuccessful(resp)) =>
            /\ loc.jiraCaller = "gds" =>
                 (loc'.jiraTicketDetails = [present |-> FALSE] /\ pc' = "gds_llm")
            /\ loc.jiraCaller = "acd" =>
                 (loc'.figmaLinks = << >> /\ pc' = "acd_compose")
      /\ (pc = "acd_compose" /\ AcdReturned' /\ loc.figmaLinks = << >>) =>
            ~HasSection(loc'.enhancedDescription, "Figma Links"))]_vars

\* both callers have seen a failed fetch: the prompts were built without
\* ticket details and the description is composed without Figma links
C22_Witness ==
  /\ Composed
  /\ Cardinality(Failed("jira")) = 2
  /\ ~loc.jiraTicketDetails.present
  /\ ~HasSection(loc.enhancedDescription, "Figma Links")

-----------------------------------------------------------------------------
(* Properties of generate_pr_summary *)

GpsRun == inv.tool = "generate_pr_summary" /\ ~TokenMissing

\* the three narrative sections of a description
Narrative(desc) == <<desc[1], desc[2], desc[3]>>

\* C23: generate_pr_summary does not surface a failure of the diff analysis
\* or of the narrative generation: it goes on to the repository GET and,
\* when that succeeds, returns success=true with the static description
\* (diff analysis failed) or with the templated narrative in the composed
\* description (narrative generation failed); it returns success=false only
\* without a token or when the repository GET failed
C23_SummaryAbsorbsEnrichmentFailure ==
  inv.tool = "generate_pr_summary" =>
    /\ (GpsRun /\ Ended) => Issued("repo") # {}
    /\ pc = "thrown" => Failed("repo") # {}
    /\ (pc = "returned" /\ ~result.val.success) =>
          (TokenMissing \/ Failed("repo") # {})
    /\ (GpsRun /\ pc = "returned" /\ Failed("repo") = {}) =>
          /\ result.val.success
          /\ LET desc == result.val.summary.generated_description IN
             IF Failed("compare") # {} \/ SummaryUnscannable
             THEN desc = staticDescriptionOf(inv.head, inv.base)
             ELSE (Failed("llm") # {} \/ ~inv.ai) =>
                    Narrative(desc) =
                      <<Part("Description",
                             fallbackSummary(inv.head, inv.base, Len(loc.filesChanged),
                                             loc.stats.additions, loc.stats.deletions)),
                        Part("Key Changes",
                             fallbackKeyChanges(Len(loc.filesChanged),
                                                loc.stats.additions, loc.stats.deletions)),
                        Part("Motivation and Context", fallbackMotivation)>>

\* the compare GET failed and the summary is returned with success=true
C23_Witness ==
  /\ GpsRun
  /\ pc = "returned"
  /\ Failed("compare") # {}
  /\ result.val.success
  /\ result.val.summary.generated_description = staticDescriptionOf(inv.head, inv.base)

\* an LLM call failed and the summary is returned with the templated narrative
C23_WitnessNarrative ==
  /\ GpsRun
  /\ pc = "returned"
  /\ Failed("llm") # {}
  /\ result.val.success
  /\ result.val.summary.generated_description # staticDescriptionOf(inv.head, inv.base)

-----------------------------------------------------------------------------
(* Properties of the ticket links *)

\* the link to a ticket under the configured base URL
ConfiguredUrl(ticket) ==
  [base |-> inv.JIRA_BASE_URL, path |-> "/browse/", ticket |-> ticket]

JiraLinks == loc.enhancedDescription[SectionOf(loc.enhancedDescription, "Jira Ticket")].val.links

\* C24: every ticket bullet of the composed Jira Ticket section, and the url
\* of every ticket get_jira_ticket_details returns, is the configured
\* JIRA_BASE_URL followed by /browse/ and the ticket ID
C24_LinksUnderConfiguredBaseUrl ==
  /\ Composed =>
        \A p \in 1 .. Len(JiraLinks) : JiraLinks[p] = ConfiguredUrl(loc.allJiraTickets[p])
  /\ (inv.tool = "get_jira_ticket_details" /\ pc = "returned") =>
        result.val.ticket.url = ConfiguredUrl(inv.ticketId)

-----------------------------------------------------------------------------
(* Properties of the create_pull_request result *)

Succeeded(op) == {i \in 1 .. Len(net) : net[i].op = op /\ net[i].st = "ok"}

CprRun == inv.tool = "create_pull_request" /\ ~TokenMissing

\* C25: whenever the create-PR POST got a success response,
\* create_pull_request returns an envelope with success=true, whatever the
\* shape of the response body
C25_CreatedMeansSuccess ==
  (CprRun /\ Ended /\ Succeeded("createPR") # {}) =>
    (pc = "returned" /\ result.val.success)

\* C26: with include_diff_analysis false, create_pull_request issues no
\* compare GET, no issue-tracker GET and no LLM call, and posts the caller's
\* body, head and base unchanged; the title is the caller's, with the
\* signature appended unless it already ends with it
C26_NoAnalysisPostsCallersBody ==
  (CprRun /\ ~inv.include) =>
    /\ EnrichmentRequests = {}
    /\ \A i \in 1 .. Len(net) : net[i].op = "createPR"
    /\ (pc \in {"cpr_wait", "returned", "thrown", "responded"}) =>
          /\ Issued("createPR") # {}
          /\ loc.payload.body = (IF inv.body = << >> THEN << >>
                                  ELSE <<Part("text", JsStr(inv.body))>>)
          /\ loc.payload.head = inv.head
          /\ loc.payload.base = inv.base
          /\ loc.payload.title \in {inv.title, inv.title \o aiSignature}

\* a pull request is submitted with the caller's body "Note" and no analysis
C26_Witness ==
  /\ CprRun
  /\ ~inv.include
  /\ inv.body = <<"N","o","t","e">>
  /\ pc = "returned"
  /\ result.val.success
  /\ loc.payload.title # inv.title

\* C27: a successful create_pull_request result reports
\* includes_diff_analysis = true only when the compare GET succeeded and the
\* submitted body is not the static fallback description
C27_FlagMeansAnalysedBody ==
  (CprRun /\ pc = "returned" /\ result.val.success
     /\ result.val.pull_request.includes_diff_analysis) =>
    /\ Succeeded("compare") # {}
    /\ loc.payload.body # staticDescriptionOf(inv.head, inv.base)

-----------------------------------------------------------------------------
(* Properties of the narrative after a failed ticket fetch *)

\* the ticket fetch generateDetailedSummary made before its LLM calls failed
GdsFetchFailed ==
  /\ inv.ai
  /\ \E i \in Failed("jira") : \A j \in Issued("llm") : i < j

\* C28: after a failed ticket fetch generateDetailedSummary still makes its
\* LLM calls, and when none of them fails it has made all three and returns
\* the bundle of the three answers
C28_FailedFetchKeepsNarrative ==
  (GdsFetchFailed /\ HasBundle) =>
    /\ Issued("llm") # {}
    /\ Failed("llm") = {} =>
         /\ Cardinality(Succeeded("llm")) = 3
         /\ Len(loc.responses) = 3
         /\ loc.bundle = [detailedSummary |-> loc.responses[1],
                          keyChanges |-> loc.responses[2],
                          motivationContext |-> loc.responses[3]]

\* the ticket fetch failed, the three LLM calls answered and the bundle is
\* the generated one
C28_Witness ==
  /\ GdsFetchFailed
  /\ pc = "acd_tickets"
  /\ Failed("llm") = {}
  /\ loc.bundle.detailedSummary = loc.responses[1]
  /\ loc.bundle.detailedSummary #
       fallbackSummary(inv.head, inv.base, Len(loc.filesChanged),
                       loc.stats.additions, loc.stats.deletions)

-----------------------------------------------------------------------------
(* Specification of create_pull_request on its own, with fairness: the    *)
(* function runs on whenever it can, and each request that was issued is  *)
(* eventually answered or fails                                           *)

CprCalls ==
  {a \in Calls : a.tool = "create_pull_request" /\ a.title = <<"F","i","x">>
                   /\ a.body = << >>}

\* the statements of create_pull_request, analyzeCodeDiff and
\* generateDetailedSummary between two awaits
CprStatements ==
  \/ ValidateToken
  \/ AcdIssueCompare
  \/ GdsStart
  \/ GdsLlmIssue
  \/ AcdTickets
  \/ AcdCompose
  \/ CprSubmit

\* an outstanding request of the invocation is answered or fails
CprSettled ==
  \/ AcdCompareRejected
  \/ \E d \in CompareBodies : AcdCompareResolved(d)
  \/ \E r \in JiraResponses(loc.jiraTicketId) : JiraSettled(r)
  \/ \E c \in LlmContents(loc.k) : GdsLlmResolved(c)
  \/ GdsLlmRejected
  \/ pc = "cpr_wait" /\ \E pr \in PrBodies(loc.payload) : CprPostResolved(pr)
  \/ \E e \in HttpErrors : CprPostRejected(e)

NextCpr ==
  \/ \E a \in CprCalls : Invoke(a)
  \/ CprStatements
  \/ CprSettled

SpecCpr ==
  Init /\ [][NextCpr]_vars /\ WF_vars(CprStatements) /\ WF_vars(CprSettled)

\* the positions at which the next statement of the invocation can run
AtStatement ==
  pc \in {"validate", "acd_issue", "gds_start", "gds_llm", "acd_tickets",
          "acd_compose", "cpr_submit"}

\* C29: every create_pull_request invocation ends by returning an envelope,
\* whatever the outcomes of its requests: once no statement is left to run
\* and no request is outstanding, the tool has returned a result with a
\* success field, it has not stopped in the analysis or the submission and
\* has not raised an exception
C29_EndsWithEnvelope ==
  (inv.tool = "create_pull_request" /\ ~AtStatement /\ Pending = {}) =>
    /\ pc = "returned"
    /\ result.val.success \in BOOLEAN

====
